---- MODULE Spec2Model ----
(***************************************************************************)
(* A model of ngx-remote-desktop's session service (RemoteDesktopService), *)
(* its upload tracking (ManagedFileUpload / ManagedFileTransferState) and  *)
(* the REST upload adapter (TunnelRestApiService.uploadToStream).          *)
(*                                                                         *)
(* The external Guacamole client, tunnel and streams are the environment:  *)
(* they invoke the callbacks the service installs (stream.onack, the       *)
(* XMLHttpRequest events, client/tunnel onstatechange and onerror)         *)
(* whenever the corresponding hook is installed.                           *)
(***************************************************************************)
EXTENDS Integers, Sequences, FiniteSets, TLC

(***************************************************************************)
(* Bounds of the model.                                                    *)
(***************************************************************************)
\* number of uploadFile calls that create a transfer
MaxUploads == 2
\* number of refresh calls made on the entries of a filesystem
MaxRefreshes == 2
\* number of filesystems the client announces
MaxFilesystems == 2
\* number of connect calls on one service
MaxConnects == 2
\* number of files the client sends for download
MaxDownloads == 2
\* number of clipboard streams the client delivers
MaxClipboards == 1
\* number of blobs of one clipboard stream
MaxChunks == 2

(***************************************************************************)
(* The Guacamole status codes the code names (Status.Code of the client    *)
(* library). What the code depends on is that SUCCESS is 0, hence falsy,   *)
(* that the others are distinct and that isError() is true for them.       *)
(***************************************************************************)
SUCCESS == 0
UNSUPPORTED == 256
INTERNAL_ERROR == 512
CLIENT_FORBIDDEN == 771
StatusCodes == {SUCCESS, UNSUPPORTED, INTERNAL_ERROR, CLIENT_FORBIDDEN}

\* Status.isError() of the acknowledgement handed to stream.onack
isError(code) == code < 0 \/ code > 255

\* An optional argument: <<>> when null or not given, <<v>> when given.
None == <<>>
Some(v) == <<v>>
\* JavaScript truthiness of an optional number: null, undefined and 0 are falsy
Truthy(opt) == opt # None /\ opt[1] # 0

(***************************************************************************)
(* managed-file-upload.ts                                                  *)
(***************************************************************************)
StreamState ==
  [IDLE |-> "IDLE", OPEN |-> "OPEN", CLOSED |-> "CLOSED", ERROR |-> "ERROR"]
StreamStates ==
  {StreamState.IDLE, StreamState.OPEN, StreamState.CLOSED, StreamState.ERROR}

\* new ManagedFileTransferState(template): template fields are optional
NewTransferState(tplState, tplCode) ==
  [streamState |-> IF tplState # None THEN tplState[1] ELSE StreamState.IDLE,
   statusCode  |-> IF Truthy(tplCode) THEN tplCode[1] ELSE SUCCESS]

\* setStreamState resetting the status code when none is given
setStreamStateResetCode(ts, streamState, statusCode) ==
  IF ts.streamState = StreamState.ERROR
    THEN ts
    ELSE [streamState |-> streamState,
          statusCode  |-> IF Truthy(statusCode) THEN statusCode[1] ELSE SUCCESS]

\* setStreamState without the terminal guard
setStreamStateNoGuard(ts, streamState, statusCode) ==
  [streamState |-> streamState,
   statusCode  |-> IF Truthy(statusCode) THEN statusCode[1] ELSE ts.statusCode]

\* ManagedFileTransferState.setStreamState(streamState, statusCode)
setStreamState(ts, streamState, statusCode) ==
  IF ts.streamState = StreamState.ERROR
    THEN ts
    ELSE [streamState |-> streamState,
          statusCode  |-> IF Truthy(statusCode) THEN statusCode[1]
                                                ELSE ts.statusCode]

\* new ManagedFileUpload(null)
NewManagedFileUpload ==
  [filename |-> "", mimetype |-> "", progress |-> 0, length |-> 0,
   transferState |-> NewTransferState(None, None)]

(***************************************************************************)
(* managed-filesystem.ts                                                   *)
(***************************************************************************)
FileType == [NORMAL |-> "NORMAL", DIRECTORY |-> "DIRECTORY"]

(***************************************************************************)
(* remote-desktop.service.ts                                               *)
(***************************************************************************)
\* RemoteDesktopService.STATE (STATE itself is a reserved word of TLA+)
ServiceSTATE ==
  [IDLE |-> "IDLE", CONNECTING |-> "CONNECTING", WAITING |-> "WAITING",
   CONNECTED |-> "CONNECTED", DISCONNECTED |-> "DISCONNECTED",
   CLIENT_ERROR |-> "CLIENT_ERROR", TUNNEL_ERROR |-> "TUNNEL_ERROR"]

VARIABLES
  onStateChange,  \* value held by the onStateChange BehaviorSubject
  bound,          \* bindEventHandlers has installed the client/tunnel handlers
  clientOp,       \* the last call the service delegated to the client
  effects,        \* what the last service call or handler did, in order:
                  \* calls delegated to the client and states broadcast
  subscriber,     \* an observer of onStateChange: whether it is subscribed
                  \* and the last value it received, None if none yet
  uploads,        \* RemoteDesktopService.uploads: sequence of transfer ids
  transfers,      \* every ManagedFileUpload created so far, by id
  streams,        \* the output stream created for each transfer, by id
  lastUpload,     \* what the last uploadFile call did: the error it threw
                  \* or the stream it had created
  ts,             \* a stand-alone ManagedFileTransferState
  tsCall,         \* the last setStreamState call made on ts
  files,          \* File.files of each entry refresh is called on, by the
                  \* entry's stream name: None while undefined
  requests,       \* the refresh calls made so far: the promise returned, the
                  \* input stream requested and the acknowledgements sent on
                  \* it (a run of 'Received' acknowledgements kept as one)
  lastEnd,        \* the directory listing stream that ended last: its
                  \* request and the JSON it delivered
  calls,          \* for each request, the method that made it (refresh,
                  \* changeDirectory or createInstance) and the promise that
                  \* method returned to its caller
  currentDirectory, \* ManagedFilesystem.currentDirectory: the stream name of
                  \* the entry, None while undefined
  instance,       \* createInstance: not called, pending, returned or failed
  revision,       \* which of the two revisions of remote-desktop.service.ts
                  \* the service is: "earlier" or "later"
  announced,      \* for each filesystem the client announced, the root
                  \* refresh of its createInstance and the files of its root
  filesystems,    \* RemoteDesktopService.filesystems: announced filesystems
  subjectFilesystems, \* what subjectFilesystems has emitted, in order
  parameters,     \* the argument connect is called with
  configuration,  \* what client.connect was last given, None before
  clipboards,     \* the clipboard streams received from the client
  onRemoteClipboardData, \* what onRemoteClipboardData has emitted, in order
  oninstruction,  \* tunnel.oninstruction: the number of wrappers that
                  \* bindEventHandlers has put around the handler of the client
  tunnelInstruction, \* the instruction the tunnel delivered last and what
                  \* its delivery called
  downloads,      \* the iframe, stream and timer of each downloadStream call
  polls           \* the completion poll of each upload started from the
                  \* file manager, by transfer id

vars ==
  <<onStateChange, bound, clientOp, effects, subscriber, uploads, transfers,
    streams, lastUpload, ts, tsCall, files, requests, lastEnd, calls,
    currentDirectory, instance, revision, announced, filesystems,
    subjectFilesystems, parameters, configuration, clipboards,
    onRemoteClipboardData, oninstruction, tunnelInstruction, downloads, polls>>
connVars == <<onStateChange, bound, clientOp, effects, subscriber>>
uploadVars == <<uploads, transfers, streams, lastUpload>>
tsVars == <<ts, tsCall>>
fsVars == <<files, requests, lastEnd, calls, currentDirectory, instance>>
mirrorVars == <<revision, announced, filesystems, subjectFilesystems>>
paramVars == <<parameters, configuration>>
clipVars == <<clipboards, onRemoteClipboardData>>
moreVars == <<oninstruction, tunnelInstruction, downloads, polls>>
sessionVars == <<mirrorVars, paramVars, clipVars, moreVars>>

Ids == 1..Len(transfers)

NoUpload == [error |-> "", object |-> None, streamName |-> None]

NoCall == [made |-> FALSE, before |-> NewTransferState(None, None),
           streamState |-> StreamState.IDLE, statusCode |-> None]

(***************************************************************************)
(* Inputs offered by the callers and by the environment.                   *)
(***************************************************************************)
\* the browser File objects handed to uploadFile
Files == {[name |-> "a.txt", type |-> "text/plain", size |-> 1]}

\* ManagedFilesystem.File entries offered as upload destination
NormalEntry == [type |-> FileType.NORMAL, streamName |-> <<"root", "f.bin">>]
DirectoryEntry == [type |-> FileType.DIRECTORY, streamName |-> <<"root", "dir">>]
DirectoryArgs == {None, Some(NormalEntry), Some(DirectoryEntry)}

\* the optional ManagedFilesystem argument of uploadFile
FsArgs == {None, Some([object |-> "fsobject", currentDirectory |-> DirectoryEntry])}

\* the status codes an acknowledgement can carry
AckCodes == {SUCCESS, UNSUPPORTED, CLIENT_FORBIDDEN}

\* error objects the REST endpoint can return as a JSON body
JsonErrors ==
  {[type |-> "STREAM_ERROR", statusCode |-> Some(UNSUPPORTED)],
   [type |-> "STREAM_ERROR", statusCode |-> Some(SUCCESS)],
   [type |-> "BAD_REQUEST", statusCode |-> Some(UNSUPPORTED)]}

\* the completed XMLHttpRequest: HTTP status and, when the Content-Type is
\* application/json, the parsed body
HttpResponses ==
  {[status |-> st, json |-> None] : st \in {200, 403, 500}}
    \cup {[status |-> 500, json |-> Some(e)] : e \in JsonErrors}

(***************************************************************************)
(* Strings whose characters matter (stream names, paths of a listing) are  *)
(* sequences of one-character strings.                                     *)
(***************************************************************************)
Min(a, b) == IF a < b THEN a ELSE b
Max(a, b) == IF a < b THEN b ELSE a

\* String.prototype.charAt(i): "" when i is out of range
charAt(str, i) == IF i >= 0 /\ i < Len(str) THEN <<str[i + 1]>> ELSE <<>>

\* String.prototype.substring(start, end): both clamped to the string
substring(str, start, end) ==
  LET a == Max(0, Min(start, Len(str)))
      b == Max(0, Min(end, Len(str)))
  IN SubSeq(str, Min(a, b) + 1, Max(a, b))

(***************************************************************************)
(* The filesystem entries refresh is called on and the listings the remote *)
(* end returns.                                                            *)
(***************************************************************************)
\* Object.STREAM_INDEX_MIMETYPE and Object.ROOT_STREAM of the client library
STREAM_INDEX_MIMETYPE == "application/vnd.glyptodon.guacamole.stream-index+json"
ROOT_STREAM == <<"/">>
TextPlain == "text/plain"
Mimetypes == {STREAM_INDEX_MIMETYPE, TextPlain}

\* the root created by createInstance, a directory "/d" and a file "/a"
RootEntry ==
  [mimetype |-> STREAM_INDEX_MIMETYPE, streamName |-> ROOT_STREAM,
   type |-> FileType.DIRECTORY]
SubEntry ==
  [mimetype |-> STREAM_INDEX_MIMETYPE, streamName |-> <<"/", "d">>,
   type |-> FileType.DIRECTORY]
PlainEntry ==
  [mimetype |-> TextPlain, streamName |-> <<"/", "a">>, type |-> FileType.NORMAL]
Entries == {RootEntry, SubEntry, PlainEntry}

\* the JSON objects a listing stream can deliver: stream name -> mimetype
EmptyFiles == <<>>
ListingRoot ==
  (<<"/", "a">> :> TextPlain) @@ (<<"/", "d">> :> STREAM_INDEX_MIMETYPE)
ListingSub ==
  (<<"/", "d">> :> STREAM_INDEX_MIMETYPE) @@ (<<"/", "d", "/", "a">> :> TextPlain)
    @@ (<<"/", "d", "a">> :> STREAM_INDEX_MIMETYPE) @@ (<<"a">> :> TextPlain)
Listings == {EmptyFiles, ListingRoot, ListingSub}

NoEnd == [request |-> 0, json |-> EmptyFiles]

InitFilesystem ==
  /\ files = [e \in {entry.streamName : entry \in Entries} |-> None]
  /\ requests = <<>>
  /\ lastEnd = NoEnd
  /\ calls = <<>>
  /\ currentDirectory = None
  /\ instance = "none"

(***************************************************************************)
(* ManagedFileTransferState on its own: constructed from any template and  *)
(* driven by arbitrary setStreamState calls.                               *)
(***************************************************************************)
OptStates == {None} \cup {Some(p) : p \in StreamStates}
OptCodes == {None} \cup {Some(c) : c \in StatusCodes}

SetStreamStateCall(streamState, statusCode) ==
  /\ ts' = setStreamState(ts, streamState, statusCode)
  /\ tsCall' = [made |-> TRUE, before |-> ts,
                streamState |-> streamState, statusCode |-> statusCode]
  /\ UNCHANGED <<connVars, uploadVars, fsVars, sessionVars>>

\* connect() without an argument: parameters = {}
NoParameters == <<>>

\* the revision and the connect argument of the specifications that vary
\* neither
InitInputs ==
  /\ revision = "later"
  /\ parameters = NoParameters

\* no instruction delivered yet
NoInstruction == [opcode |-> "", wrappers |-> 0, handled |-> 0, emitted |-> 0]

InitService ==
  /\ onStateChange = ServiceSTATE.IDLE
  /\ bound = FALSE
  /\ clientOp = "none"
  /\ effects = <<>>
  /\ subscriber = [subscribed |-> FALSE, received |-> None]
  /\ uploads = <<>>
  /\ transfers = <<>>
  /\ streams = <<>>
  /\ lastUpload = NoUpload
  /\ announced = <<>>
  /\ filesystems = <<>>
  /\ subjectFilesystems = <<>>
  /\ configuration = None
  /\ clipboards = <<>>
  /\ onRemoteClipboardData = <<>>
  /\ oninstruction = 0
  /\ tunnelInstruction = NoInstruction
  /\ downloads = <<>>
  /\ polls = <<>>

InitTS ==
  /\ InitInputs
  /\ InitService
  /\ InitFilesystem
  /\ ts \in {NewTransferState(p, c) : p \in OptStates, c \in OptCodes}
  /\ tsCall = NoCall

NextTS ==
  \E p \in StreamStates, c \in OptCodes : SetStreamStateCall(p, c)

SpecTS == InitTS /\ [][NextTS]_vars

\* C1: once the phase of a transfer state is ERROR, a setStreamState call
\* with any phase, with or without a status code, leaves the phase and the
\* stored status code as they were.
C1_ErrorIsTerminal ==
  [][ts.streamState = StreamState.ERROR =>
       /\ ts'.streamState = ts.streamState
       /\ ts'.statusCode = ts.statusCode]_vars

\* a call naming another phase and another, truthy code was made on a state
\* that was ERROR
C1_Witness ==
  /\ tsCall.made
  /\ tsCall.before.streamState = StreamState.ERROR
  /\ tsCall.streamState = StreamState.CLOSED
  /\ Truthy(tsCall.statusCode)
  /\ tsCall.statusCode[1] # tsCall.before.statusCode
  /\ ts = tsCall.before

(***************************************************************************)
(* TunnelRestApiService.uploadToStream: the outcome of the promise, from   *)
(* the completed request (xhr.onreadystatechange with readyState 4).       *)
(***************************************************************************)
Resolved == [ok |-> TRUE, error |-> [type |-> "", statusCode |-> None]]
Rejected(error) == [ok |-> FALSE, error |-> error]

uploadToStream(http) ==
  IF http.status >= 200 /\ http.status < 300
    THEN Resolved
  ELSE IF http.json # None
    THEN Rejected(http.json[1])
  ELSE IF http.status >= 400 /\ http.status < 500
    THEN Rejected([type |-> "STREAM_ERROR", statusCode |-> Some(CLIENT_FORBIDDEN)])
  ELSE Rejected([type |-> "STREAM_ERROR", statusCode |-> Some(INTERNAL_ERROR)])

(***************************************************************************)
(* RemoteDesktopService: uploads                                           *)
(***************************************************************************)
\* the output stream as the service sees it: whether the onack handler is
\* installed, whether sendEnd was called on it, whether the handler has run,
\* and the state of the upload request made for it
NewStream ==
  [onack |-> TRUE, ended |-> FALSE, acked |-> FALSE, xhr |-> "none"]

\* createUploadInstance without the setStreamState(OPEN) that follows the
\* creation of the stream
createUploadInstanceIdle(file, object, streamName) ==
  [upload |-> [NewManagedFileUpload EXCEPT !.filename = file.name,
                 !.mimetype = file.type, !.progress = 0, !.length = file.size],
   stream |-> NewStream,
   created |-> [object |-> object, streamName |-> streamName]]

\* createUploadInstance: the upload it returns and the stream it creates
createUploadInstance(file, object, streamName) ==
  LET created == NewManagedFileUpload
      inited == [created EXCEPT !.filename = file.name, !.mimetype = file.type,
                                !.progress = 0, !.length = file.size]
  IN [upload |-> [inited EXCEPT !.transferState =
                    setStreamState(@, StreamState.OPEN, None)],
      stream |-> NewStream,
      \* client.createFileStream(type, name) when there is no object,
      \* object.createOutputStream(type, streamName) otherwise
      created |-> [object |-> object, streamName |-> streamName]]

\* uploadFile without the check of the destination's type
uploadFileErrorAnyType(directory) ==
  IF directory = None THEN "TypeError" ELSE ""

\* the error uploadFile throws, "" if none: directory.type is read first
uploadFileError(directory) ==
  IF directory = None THEN "TypeError"
  ELSE IF directory[1].type # FileType.DIRECTORY
    THEN "upload destination is not a directory"
  ELSE ""

\* the destination uploadFile computes: the object and the stream name
uploadDestination(file, fs, directory) ==
  IF fs # None
    THEN [object |-> Some(fs[1].object),
          \* (directory || fs.currentDirectory).streamName + '/' + file.name
          streamName |->
            Some(Append((IF directory # None THEN directory[1]
                                             ELSE fs[1].currentDirectory).streamName,
                        file.name))]
    ELSE [object |-> None, streamName |-> None]

\* uploadFile putting the new upload first in the collection (unshift for push)
uploadFileUnshift(file, fs, directory) ==
  IF uploadFileError(directory) # ""
    THEN /\ lastUpload' = [error |-> uploadFileError(directory),
                            object |-> None, streamName |-> None]
         /\ UNCHANGED <<uploads, transfers, streams>>
    ELSE LET dest == uploadDestination(file, fs, directory)
             inst == createUploadInstance(file, dest.object, dest.streamName)
         IN /\ Len(transfers) < MaxUploads
            /\ transfers' = Append(transfers, inst.upload)
            /\ streams' = Append(streams, inst.stream)
            /\ uploads' = <<Len(transfers) + 1>> \o uploads
            /\ lastUpload' = [error |-> "", object |-> inst.created.object,
                               streamName |-> inst.created.streamName]

\* uploadFile(file, fs, directory)
uploadFile(file, fs, directory) ==
  IF uploadFileError(directory) # ""
    THEN /\ lastUpload' = [error |-> uploadFileError(directory),
                            object |-> None, streamName |-> None]
         /\ UNCHANGED <<uploads, transfers, streams>>
    ELSE LET dest == uploadDestination(file, fs, directory)
             inst == createUploadInstance(file, dest.object, dest.streamName)
         IN /\ Len(transfers) < MaxUploads
            /\ transfers' = Append(transfers, inst.upload)
            /\ streams' = Append(streams, inst.stream)
            /\ uploads' = Append(uploads, Len(transfers) + 1)
            /\ lastUpload' = [error |-> "", object |-> inst.created.object,
                               streamName |-> inst.created.streamName]

UploadFileOf(file, fs, directory) ==
  /\ uploadFile(file, fs, directory)
  /\ UNCHANGED <<connVars, tsVars, fsVars, sessionVars>>

UploadFile ==
  \E file \in Files, fs \in FsArgs, directory \in DirectoryArgs :
    UploadFileOf(file, fs, directory)

\* isTransferInProgress taking every state but ERROR as in progress
isTransferInProgressNotError(transferState) ==
  transferState.streamState # StreamState.ERROR

\* isTransferInProgress(transferState)
isTransferInProgress(transferState) ==
  transferState.streamState \in {StreamState.IDLE, StreamState.OPEN}

\* the position of the first upload of the list that is not in progress, 0 if none
FirstCompleted(list, xfers) ==
  LET done == {i \in 1..Len(list) : ~isTransferInProgress(xfers[list[i]].transferState)}
  IN IF done = {} THEN 0 ELSE CHOOSE i \in done : \A j \in done : i <= j

\* clearCompletedUploads removing only the first upload that is not in progress
clearFirstCompleted(list, xfers) ==
  LET k == FirstCompleted(list, xfers)
  IN IF k = 0 THEN list
     ELSE SubSeq(list, 1, k - 1) \o SubSeq(list, k + 1, Len(list))

\* clearCompletedUploads(): the filtered collection
clearCompletedUploads(list, xfers) ==
  LET isUploadInProgress(id) == isTransferInProgress(xfers[id].transferState)
  IN SelectSeq(list, isUploadInProgress)

ClearCompletedUploads ==
  /\ uploads' = clearCompletedUploads(uploads, transfers)
  /\ UNCHANGED <<transfers, streams, lastUpload, connVars, tsVars, fsVars, sessionVars>>

\* stream.onack(status) without the final stream.onack = null
onackKeepsHandler(id, code) ==
  IF isError(code)
    THEN /\ transfers' = [transfers EXCEPT ![id].transferState =
                            setStreamState(@, StreamState.ERROR, Some(code))]
         /\ streams' = [streams EXCEPT ![id].ended = TRUE, ![id].acked = TRUE]
    ELSE /\ transfers' = transfers
         /\ streams' = [streams EXCEPT ![id].xhr = "sent", ![id].acked = TRUE]

\* stream.onack(status), as installed by createUploadInstance
onack(id, code) ==
  IF isError(code)
    THEN /\ transfers' = [transfers EXCEPT ![id].transferState =
                            setStreamState(@, StreamState.ERROR, Some(code))]
         /\ streams' = [streams EXCEPT ![id].ended = TRUE, ![id].acked = TRUE]
    ELSE /\ transfers' = transfers
         /\ streams' = [streams EXCEPT ![id].xhr = "sent", ![id].onack = FALSE,
                                        ![id].acked = TRUE]

\* the stream delivers an acknowledgement to the installed handler
AckOf(id, code) ==
  /\ streams[id].onack
  /\ onack(id, code)
  /\ UNCHANGED <<uploads, lastUpload, connVars, tsVars, fsVars, sessionVars>>

Ack == \E id \in Ids, code \in AckCodes : AckOf(id, code)

\* the progress callback handed to uploadToStream
ProgressOf(id, loaded) ==
  /\ streams[id].xhr = "sent"
  /\ transfers' = [transfers EXCEPT ![id].progress = loaded]
  /\ UNCHANGED <<uploads, streams, lastUpload, connVars, tsVars, fsVars, sessionVars>>

Progress == \E id \in Ids : \E loaded \in 0..transfers[id].length : ProgressOf(id, loaded)

\* the then/rejection callbacks of the uploadToStream promise
uploadOutcome(upload, result) ==
  IF result.ok
    THEN [upload EXCEPT !.progress = upload.length,
                        !.transferState = setStreamState(@, StreamState.CLOSED, None)]
  ELSE IF result.error.type = "STREAM_ERROR"
    THEN [upload EXCEPT !.transferState =
            setStreamState(@, StreamState.ERROR, result.error.statusCode)]
  ELSE [upload EXCEPT !.transferState =
          setStreamState(@, StreamState.ERROR, Some(INTERNAL_ERROR))]

\* the settled promise also taking the upload out of the collection
UploadDoneOfAutoRemove(id, http) ==
  /\ streams[id].xhr = "sent"
  /\ transfers' = [transfers EXCEPT ![id] = uploadOutcome(@, uploadToStream(http))]
  /\ streams' = [streams EXCEPT ![id].xhr = "done"]
  /\ uploads' = SelectSeq(uploads, LAMBDA u : u # id)
  /\ UNCHANGED <<lastUpload, connVars, tsVars, fsVars, sessionVars>>

\* the upload request completes and the promise settles
UploadDoneOf(id, http) ==
  /\ streams[id].xhr = "sent"
  /\ transfers' = [transfers EXCEPT ![id] = uploadOutcome(@, uploadToStream(http))]
  /\ streams' = [streams EXCEPT ![id].xhr = "done"]
  /\ UNCHANGED <<uploads, lastUpload, connVars, tsVars, fsVars, sessionVars>>

UploadDone == \E id \in Ids, http \in HttpResponses : UploadDoneOf(id, http)

(***************************************************************************)
(* RemoteDesktopService.buildParameters.  A JavaScript object is the       *)
(* sequence of its properties in insertion order; a value is a string or   *)
(* an object.                                                              *)
(***************************************************************************)
Str(text) == [kind |-> "string", text |-> text, properties |-> <<>>]
Obj(properties) == [kind |-> "object", text |-> "", properties |-> properties]
Prop(key, value) == [key |-> key, value |-> value]

Keys(object) == {object[i].key : i \in DOMAIN object}
HasKey(object, key) == key \in Keys(object)
\* object[key], for a key the object has
Get(object, key) ==
  object[CHOOSE i \in DOMAIN object : object[i].key = key].value

\* a value in a condition: every object is truthy, a string unless empty
TruthyValue(value) == value.kind = "object" \/ value.text # ""

\* obj[key] = value: an own property keeps its position, a new one is added
\* at the end
Assign(object, key, value) ==
  IF HasKey(object, key)
    THEN [i \in DOMAIN object |->
            IF object[i].key = key THEN Prop(key, value) ELSE object[i]]
    ELSE Append(object, Prop(key, value))

\* { ...a, ...b }
RECURSIVE Spread(_, _)
Spread(a, b) ==
  IF b = <<>> THEN a
  ELSE Spread(Assign(a, Head(b).key, Head(b).value), Tail(b))

connection_types == <<"rdp", "vnc", "ssh", "telnet", "kubernetes">>

\* the loop `for (let type of connection_types)` from its i-th round on
RECURSIVE unencryptedSettingsFrom(_, _, _)
unencryptedSettingsFrom(params, i, settings) ==
  IF i > Len(connection_types) THEN settings
  ELSE LET type == connection_types[i]
       IN IF HasKey(params, type) /\ TruthyValue(Get(params, type))
            THEN unencryptedSettingsFrom(params, i + 1, Get(params, type))
            ELSE unencryptedSettingsFrom(params, i + 1, settings)

\* the own properties a spread copies: those of an object; the only strings
\* that occur as a block are empty and have none
PropertiesOf(value) == IF value.kind = "object" THEN value.properties ELSE <<>>

\* `${value}` of HttpParams for the value of a property
primitiveToString(value) ==
  IF value.kind = "object" THEN "[object Object]" ELSE value.text

\* new HttpParams({fromObject}).toString(): the key=value pairs in order
HttpParamsToString(object) ==
  [i \in DOMAIN object |-> <<object[i].key, primitiveToString(object[i].value)>>]

\* buildParameters sending the parameters as they are, the blocks unmerged
buildParametersFlat(params) ==
  HttpParamsToString(params)

\* buildParameters with a loop that stops at the first block it finds
buildParametersFirstBlock(params) ==
  LET blocks == {t \in DOMAIN connection_types :
                   /\ HasKey(params, connection_types[t])
                   /\ TruthyValue(Get(params, connection_types[t]))}
      first == CHOOSE t \in blocks : \A u \in blocks : t <= u
      unencryptedSettings ==
        IF blocks = {} THEN Obj(<<>>) ELSE Get(params, connection_types[first])
      merged == Spread(Spread(<<>>, params), PropertiesOf(unencryptedSettings))
  IN HttpParamsToString(merged)

\* buildParameters(parameters)
buildParameters(params) ==
  LET unencryptedSettings == unencryptedSettingsFrom(params, 1, Obj(<<>>))
      merged == Spread(Spread(<<>>, params), PropertiesOf(unencryptedSettings))
  IN HttpParamsToString(merged)

\* the parameter objects connect is called with: an optional token, an
\* optional top-level hostname, an rdp entry that is empty or a block, and
\* a vnc entry that is a block, the two entries in either order
Opt(key, values) == {<<>>} \cup {<<Prop(key, value)>> : value \in values}
RdpBlocks == {Str(""), Obj(<<Prop("hostname", Str("r"))>>)}
VncBlocks ==
  {Obj(<<>>),
   Obj(<<Prop("hostname", Str("h"))>>),
   Obj(<<Prop("hostname", Str("h")), Prop("port", Str("5900"))>>),
   Obj(<<Prop("token", Str("B"))>>)}
ParameterObjects ==
  UNION {{token \o hostname \o rdp \o vnc, token \o hostname \o vnc \o rdp} :
           token \in Opt("token", {Str("T")}),
           hostname \in Opt("hostname", {Str("x")}),
           rdp \in Opt("rdp", RdpBlocks),
           vnc \in Opt("vnc", VncBlocks)}

(***************************************************************************)
(* RemoteDesktopService: connection state                                  *)
(***************************************************************************)
\* the connection fields of the service as a call or handler finds them,
\* with nothing done yet
Entering ==
  [onStateChange |-> onStateChange, clientOp |-> clientOp, effects |-> <<>>,
   subscriber |-> subscriber]

\* the connection fields as the call or handler leaves them
Returning(c) ==
  /\ onStateChange' = c.onStateChange
  /\ clientOp' = c.clientOp
  /\ effects' = c.effects
  /\ subscriber' = c.subscriber

\* getState(): onStateChange.getValue()
getState == onStateChange

\* the states among the effects of a call: what it broadcast, in order
IsState(e) == e \in {ServiceSTATE[k] : k \in DOMAIN ServiceSTATE}
Broadcasts(e) == SelectSeq(e, IsState)

\* setState that stores the state without emitting it to the observers
setStateSilent(c, state) ==
  [c EXCEPT !.onStateChange = state]

\* setState(state): onStateChange.next(state) stores the value and emits it
\* to the observers
setState(c, state) ==
  [c EXCEPT !.onStateChange = state,
            !.effects = Append(@, state),
            !.subscriber = IF @.subscribed THEN [@ EXCEPT !.received = Some(state)]
                                           ELSE @]

\* onStateChange.subscribe(observer): the stored value is emitted at once
Subscribe ==
  /\ ~subscriber.subscribed
  /\ subscriber' = [subscribed |-> TRUE, received |-> Some(onStateChange)]
  /\ UNCHANGED <<onStateChange, bound, clientOp, effects, uploadVars, tsVars, fsVars, sessionVars>>

\* the subscription is released
Unsubscribe ==
  /\ subscriber.subscribed
  /\ subscriber' = [subscriber EXCEPT !.subscribed = FALSE]
  /\ UNCHANGED <<onStateChange, bound, clientOp, effects, uploadVars, tsVars, fsVars, sessionVars>>

\* bindEventHandlers: tunnel.oninstruction becomes a wrapper around what it
\* was
bindEventHandlers(wrappers) == wrappers + 1

\* connect(parameters): client.connect, then bindEventHandlers
Connect ==
  /\ Returning([Entering EXCEPT !.clientOp = "connect",
                                !.effects = Append(@, "client.connect")])
  /\ configuration' = Some(buildParameters(parameters))
  /\ bound' = TRUE
  /\ oninstruction < MaxConnects
  /\ oninstruction' = bindEventHandlers(oninstruction)
  /\ UNCHANGED <<parameters, uploadVars, tsVars, fsVars, mirrorVars, clipVars,
                 tunnelInstruction, downloads, polls>>

\* handleClientStateChange reporting DISCONNECTED for client state 5
handleClientStateChangeOnClosed(c, state) ==
  CASE state = 0 -> setState(c, ServiceSTATE.IDLE)
    [] state = 2 -> setState(c, ServiceSTATE.WAITING)
    [] state = 3 -> setState(c, ServiceSTATE.CONNECTED)
    [] state = 5 -> setState(c, ServiceSTATE.DISCONNECTED)
    [] OTHER -> c

\* handleClientStateChange(state)
handleClientStateChange(c, state) ==
  CASE state = 0 -> setState(c, ServiceSTATE.IDLE)
    [] state = 2 -> setState(c, ServiceSTATE.WAITING)
    [] state = 3 -> setState(c, ServiceSTATE.CONNECTED)
    [] OTHER -> c

HandleClientStateChangeOf(state) ==
  /\ bound
  /\ Returning(handleClientStateChange(Entering, state))
  /\ UNCHANGED <<bound, uploadVars, tsVars, fsVars, sessionVars>>

HandleClientStateChange == \E state \in 0..5 : HandleClientStateChangeOf(state)

\* handleTunnelStateChange ignoring the reports that follow a fatal error
handleTunnelStateChangeGuarded(c, state) ==
  IF c.onStateChange \in {ServiceSTATE.CLIENT_ERROR, ServiceSTATE.TUNNEL_ERROR}
    THEN c
  ELSE CASE state = 1 -> setState(c, ServiceSTATE.CONNECTING)
         [] state = 2 -> setState(c, ServiceSTATE.DISCONNECTED)
         [] OTHER -> c

\* handleTunnelStateChange(state)
handleTunnelStateChange(c, state) ==
  CASE state = 1 -> setState(c, ServiceSTATE.CONNECTING)
    [] state = 2 -> setState(c, ServiceSTATE.DISCONNECTED)
    [] OTHER -> c

HandleTunnelStateChangeOf(state) ==
  /\ bound
  /\ Returning(handleTunnelStateChange(Entering, state))
  /\ UNCHANGED <<bound, uploadVars, tsVars, fsVars, sessionVars>>

HandleTunnelStateChange == \E state \in 0..3 : HandleTunnelStateChangeOf(state)

\* what the client and the tunnel may report to the installed handlers while
\* client.disconnect() runs: nothing, the tunnel closing (state 2) or the
\* client having disconnected (state 5)
NoReport == [from |-> "none", state |-> 0]
SyncReports ==
  {NoReport, [from |-> "tunnel", state |-> 2], [from |-> "client", state |-> 5]}

\* disconnect(): client.disconnect(), during which the handlers, if
\* installed, may be called back
disconnect(c, installed, report) ==
  LET called == [c EXCEPT !.clientOp = "disconnect",
                          !.effects = Append(@, "client.disconnect")]
  IN IF ~installed THEN called
     ELSE CASE report.from = "tunnel" -> handleTunnelStateChange(called, report.state)
            [] report.from = "client" -> handleClientStateChange(called, report.state)
            [] OTHER -> called

DisconnectOf(report) ==
  /\ Returning(disconnect(Entering, bound, report))
  /\ UNCHANGED <<bound, uploadVars, tsVars, fsVars, sessionVars>>

Disconnect == \E report \in SyncReports : DisconnectOf(report)

\* handleClientError setting the state before it disconnects
handleClientErrorStateFirst(c, report) ==
  disconnect(setState(c, ServiceSTATE.CLIENT_ERROR), TRUE, report)

\* handleClientError(status): disconnect, then CLIENT_ERROR
handleClientError(c, report) ==
  setState(disconnect(c, TRUE, report), ServiceSTATE.CLIENT_ERROR)

HandleClientErrorOf(report) ==
  /\ bound
  /\ Returning(handleClientError(Entering, report))
  /\ UNCHANGED <<bound, uploadVars, tsVars, fsVars, sessionVars>>

HandleClientError == \E report \in SyncReports : HandleClientErrorOf(report)

\* handleTunnelError(status): disconnect, then TUNNEL_ERROR
handleTunnelError(c, report) ==
  setState(disconnect(c, TRUE, report), ServiceSTATE.TUNNEL_ERROR)

HandleTunnelErrorOf(report) ==
  /\ bound
  /\ Returning(handleTunnelError(Entering, report))
  /\ UNCHANGED <<bound, uploadVars, tsVars, fsVars, sessionVars>>

HandleTunnelError == \E report \in SyncReports : HandleTunnelErrorOf(report)

Init ==
  /\ InitInputs
  /\ InitService
  /\ InitFilesystem
  /\ ts = NewTransferState(None, None)
  /\ tsCall = NoCall

\* the uploads of the service, without the connection events
NextUploads ==
  \/ UploadFile
  \/ Ack
  \/ Progress
  \/ UploadDone
  \/ ClearCompletedUploads

Spec == Init /\ [][NextUploads]_vars

(***************************************************************************)
(* The file manager: handleFileInput and dropFile upload a file into the   *)
(* current directory and poll the transfer every 100 ms.                   *)
(***************************************************************************)
\* ManagedFileUpload.isCompleted()
isCompleted(upload) == upload.transferState.streamState = StreamState.CLOSED

\* timer(0, 100).pipe(takeWhile(...), finalize(...)).subscribe()
NewPoll == [running |-> TRUE, seen |-> "none", refreshes |-> 0]

\* one tick of the timer: takeWhile(() => !ul.isCompleted()) lets it pass or
\* completes, and finalize then calls refresh(fs, fs.currentDirectory);
\* seen is the phase the tick found
pollTick(poll, upload) ==
  LET seen == [poll EXCEPT !.seen = upload.transferState.streamState]
  IN IF ~isCompleted(upload) THEN seen
     ELSE [seen EXCEPT !.running = FALSE, !.refreshes = @ + 1]

\* handleFileInput(files) and dropFile(e) for one file
HandleFileInputOf(file, fs) ==
  /\ uploadFile(file, Some(fs), Some(fs.currentDirectory))
  /\ polls' = polls @@ (Len(transfers') :> NewPoll)
  /\ UNCHANGED <<oninstruction, tunnelInstruction, downloads, connVars, tsVars,
                 fsVars, mirrorVars, paramVars, clipVars>>

HandleFileInput ==
  \E file \in Files, fs \in {arg[1] : arg \in FsArgs \ {None}} :
    HandleFileInputOf(file, fs)

\* the timer of the poll of transfer id ticks
PollTickOf(id) ==
  /\ polls[id].running
  /\ polls' = [polls EXCEPT ![id] = pollTick(@, transfers[id])]
  /\ UNCHANGED <<oninstruction, tunnelInstruction, downloads, connVars,
                 uploadVars, tsVars, fsVars, mirrorVars, paramVars, clipVars>>

PollTick == \E id \in DOMAIN polls : PollTickOf(id)

NextPoll ==
  \/ HandleFileInput
  \/ Ack
  \/ Progress
  \/ UploadDone
  \/ PollTick

SpecPoll == Init /\ [][NextPoll]_vars

\* the whole service: uploads and connection events
NextService ==
  \/ UploadFile
  \/ Ack
  \/ Progress
  \/ UploadDone
  \/ ClearCompletedUploads
  \/ Connect
  \/ Disconnect
  \/ HandleClientStateChange
  \/ HandleTunnelStateChange
  \/ HandleClientError
  \/ HandleTunnelError

SpecService == Init /\ [][NextService]_vars

\* the connection of the service and an observer of its state
NextConnection ==
  \/ Connect
  \/ Disconnect
  \/ HandleClientStateChange
  \/ HandleTunnelStateChange
  \/ HandleClientError
  \/ HandleTunnelError
  \/ Subscribe
  \/ Unsubscribe

SpecConnection == Init /\ [][NextConnection]_vars

(***************************************************************************)
(* tunnel.oninstruction: the handler the client installed, wrapped once    *)
(* more by every bindEventHandlers.                                        *)
(***************************************************************************)
Opcodes == {"sync", "mouse"}

\* a call of tunnel.oninstruction with the given number of wrappers: each
\* wrapper calls what it wraps, then onTunnelInstruction.next
RECURSIVE oninstructionCall(_, _)
oninstructionCall(wrappers, delivery) ==
  IF wrappers = 0
    THEN [delivery EXCEPT !.handled = @ + 1]
    ELSE [oninstructionCall(wrappers - 1, delivery) EXCEPT !.emitted = @ + 1]

\* the tunnel receives an instruction and calls tunnel.oninstruction
OnInstructionOf(opcode) ==
  /\ tunnelInstruction' =
       oninstructionCall(oninstruction,
         [opcode |-> opcode, wrappers |-> oninstruction, handled |-> 0,
          emitted |-> 0])
  /\ UNCHANGED <<oninstruction, downloads, polls, connVars, uploadVars, tsVars,
                 fsVars, mirrorVars, paramVars, clipVars>>

OnInstruction == \E opcode \in Opcodes : OnInstructionOf(opcode)

NextInstruction ==
  \/ Connect
  \/ Disconnect
  \/ HandleTunnelStateChange
  \/ OnInstruction

SpecInstruction == Init /\ [][NextInstruction]_vars

(***************************************************************************)
(* TunnelRestApiService.downloadStream, called by handleFileReceived for   *)
(* each file the client sends: the hidden iframe, the stream and the       *)
(* cleanup timer.                                                          *)
(***************************************************************************)
\* document.body.removeChild(iframe): throws NotFoundError for an iframe
\* that is not a child of the body
removeChild(d) ==
  IF d.attached THEN [d EXCEPT !.attached = FALSE, !.removals = @ + 1]
                ELSE [d EXCEPT !.threw = TRUE]

\* downloadStream(tunnelUuid, stream, mimetype, filename) of an initialised
\* service: the iframe is appended and the handlers are installed
downloadStream ==
  [attached |-> TRUE, loaded |-> FALSE, acked |-> FALSE, ended |-> FALSE,
   timer |-> "none", removals |-> 0, threw |-> FALSE]

\* iframe.onload = function downloadComplete()
iframeOnload(d) == removeChild([d EXCEPT !.loaded = TRUE])

\* stream.onblob = function acknowledgeData()
acknowledgeData(d) == [d EXCEPT !.acked = TRUE]

\* stream.onend that sets no timer
streamOnendNoTimer(d) == [d EXCEPT !.ended = TRUE]

\* stream.onend = function downloadComplete(): setTimeout(cleanupIframe)
streamOnend(d) == [d EXCEPT !.ended = TRUE, !.timer = "pending"]

\* function cleanupIframe(), when the timer fires
cleanupIframe(d) ==
  LET fired == [d EXCEPT !.timer = "fired"]
  IN IF fired.attached THEN removeChild(fired) ELSE fired

\* client.onfile(stream, mimetype, filename): handleFileReceived
HandleFileReceived ==
  /\ bound
  /\ Len(downloads) < MaxDownloads
  /\ downloads' = Append(downloads, downloadStream)
  /\ UNCHANGED <<oninstruction, tunnelInstruction, polls, connVars, uploadVars,
                 tsVars, fsVars, mirrorVars, paramVars, clipVars>>

\* a handler of the i-th download was called and left it as after
DownloadEvent(i, after) ==
  /\ downloads' = [downloads EXCEPT ![i] = after]
  /\ UNCHANGED <<oninstruction, tunnelInstruction, polls, connVars, uploadVars,
                 tsVars, fsVars, mirrorVars, paramVars, clipVars>>

\* the browser fires the load event of the iframe
IframeLoad == \E i \in DOMAIN downloads : DownloadEvent(i, iframeOnload(downloads[i]))

\* a blob of the stream arrives
DownloadBlob ==
  \E i \in DOMAIN downloads :
    ~downloads[i].ended /\ DownloadEvent(i, acknowledgeData(downloads[i]))

\* the stream ends
StreamEnd ==
  \E i \in DOMAIN downloads :
    ~downloads[i].ended /\ DownloadEvent(i, streamOnend(downloads[i]))

\* the timer of the i-th download fires after DOWNLOAD_CLEANUP_WAIT
CleanupIframeOf(i) ==
  /\ i \in DOMAIN downloads
  /\ downloads[i].timer = "pending"
  /\ DownloadEvent(i, cleanupIframe(downloads[i]))

CleanupIframe == \E i \in 1..MaxDownloads : CleanupIframeOf(i)

NextDownload ==
  \/ Connect
  \/ HandleFileReceived
  \/ IframeLoad
  \/ DownloadBlob
  \/ StreamEnd
  \/ CleanupIframe

\* a timer that was set fires
SpecDownload ==
  /\ Init
  /\ [][NextDownload]_vars
  /\ \A i \in 1..MaxDownloads : WF_vars(CleanupIframeOf(i))

\* connect called with any of the parameter objects
InitParameters ==
  /\ revision = "later"
  /\ parameters \in ParameterObjects
  /\ InitService
  /\ InitFilesystem
  /\ ts = NewTransferState(None, None)
  /\ tsCall = NoCall

NextParameters == Connect

SpecParameters == InitParameters /\ [][NextParameters]_vars

(***************************************************************************)
(* ManagedFilesystemService.refresh                                        *)
(***************************************************************************)
\* resolve() and reject() of the promise refresh returns: the first one wins
resolve(promise) == IF promise = "pending" THEN "resolved" ELSE promise
reject(promise) == IF promise = "pending" THEN "rejected" ELSE promise

\* the prefix of the stream names of the children of file, taken without
\* the "/" that separates them from it
expectedPrefixBare(file) == file.streamName

\* the prefix of the stream names of the children of file
expectedPrefix(file) ==
  IF charAt(file.streamName, Len(file.streamName) - 1) # <<"/">>
    THEN file.streamName \o <<"/">>
    ELSE file.streamName

\* jsonReady adding the entries received to those already known
jsonReadyMerge(previous, file, mimetypes) ==
  LET prefix == expectedPrefix(file)
      names == {name \in DOMAIN mimetypes :
                  substring(name, 0, Len(prefix)) = prefix}
      known == IF previous = None THEN EmptyFiles ELSE previous[1]
      received ==
        [filename \in {substring(name, Len(prefix), Len(name)) : name \in names} |->
           LET name == prefix \o filename
           IN [mimetype |-> mimetypes[name], streamName |-> name,
               type |-> IF mimetypes[name] = STREAM_INDEX_MIMETYPE
                          THEN FileType.DIRECTORY ELSE FileType.NORMAL,
               parent |-> file.streamName, name |-> filename]]
  IN received @@ known

\* reader.onend = jsonReady: file.files once the loop is over; previous is
\* file.files as the callback finds it
jsonReady(previous, file, mimetypes) ==
  LET reset == EmptyFiles
      prefix == expectedPrefix(file)
      names == {name \in DOMAIN mimetypes :
                  substring(name, 0, Len(prefix)) = prefix}
      received ==
        [filename \in {substring(name, Len(prefix), Len(name)) : name \in names} |->
           LET name == prefix \o filename
           IN [mimetype |-> mimetypes[name], streamName |-> name,
               type |-> IF mimetypes[name] = STREAM_INDEX_MIMETYPE
                          THEN FileType.DIRECTORY ELSE FileType.NORMAL,
               parent |-> file.streamName, name |-> filename]]
  IN received @@ reset

\* refresh(fs, file) up to its return: the promise and the request made
refresh(file) ==
  LET promise == IF file.mimetype # STREAM_INDEX_MIMETYPE
                   THEN reject("pending") ELSE "pending"
      called == [file |-> file, promise |-> promise, stream |-> "none",
                 acks |-> <<>>]
  IN \* fs.object.requestInputStream(file.streamName, handleStream)
     [called EXCEPT !.stream = "requested"]

\* changeDirectory setting the current directory however the refresh ends
changeDirectoryAnyway(current, file, promise) ==
  IF promise # "pending" THEN Some(file.streamName) ELSE current

\* changeDirectory(fs, file) after `await this.refresh(fs, file)`:
\* fs.currentDirectory, given the promise of the refresh once settled
changeDirectory(current, file, promise) ==
  IF promise = "resolved" THEN Some(file.streamName) ELSE current

\* createInstance after `await this.refresh(fs, fs.root)`: return fs, or
\* the rejection of the refresh
createInstance(promise) ==
  CASE promise = "resolved" -> "returned"
    [] promise = "rejected" -> "failed"
    [] OTHER -> "pending"

\* the promise createInstance returns, which follows that of the refresh
createInstancePromise(promise) == promise

\* a method has called refresh: the promise it returns follows that of the
\* refresh, which a refused entry has rejected already
Called(method, req) ==
  /\ calls' = Append(calls, [method |-> method, promise |-> req.promise])
  /\ currentDirectory' = currentDirectory
  /\ instance' = IF method = "createInstance" THEN createInstance(req.promise)
                                               ELSE instance

\* the code awaiting the promise of request r runs when the promise settles
Awaited(r, before, after) ==
  LET settles == before.promise = "pending" /\ after.promise # "pending"
  IN /\ calls' = [calls EXCEPT ![r].promise = after.promise]
     /\ currentDirectory' =
          IF settles /\ calls[r].method = "changeDirectory"
            THEN changeDirectory(currentDirectory, after.file, after.promise)
            ELSE currentDirectory
     /\ instance' =
          IF settles /\ calls[r].method = "createInstance"
            THEN createInstance(after.promise)
            ELSE instance

\* the calls made so far by the user of the filesystem: the root refresh
\* of createInstance is not one of them
UserCalls == Len(SelectSeq(calls, LAMBDA c : c.method # "createInstance"))

RefreshOf(file) ==
  /\ UserCalls < MaxRefreshes
  /\ requests' = Append(requests, refresh(file))
  /\ Called("refresh", refresh(file))
  /\ UNCHANGED <<files, lastEnd, connVars, uploadVars, tsVars, sessionVars>>

Refresh == \E file \in Entries : RefreshOf(file)

\* stream.sendAck(message, code)
sendAck(message, code) == [message |-> message, code |-> code]

\* handleStream(stream, mimetype)
handleStream(req, mimetype) ==
  LET checked ==
        IF mimetype # STREAM_INDEX_MIMETYPE
          THEN [req EXCEPT !.acks = Append(@, sendAck("Unexpected mimetype", UNSUPPORTED)),
                           !.promise = reject(@)]
          ELSE req
  IN [checked EXCEPT !.acks = Append(@, sendAck("Ready", SUCCESS)),
                     !.stream = "open"]

\* the remote end answers the request with a stream
HandleStreamOf(r, mimetype) ==
  /\ requests[r].stream = "requested"
  /\ requests' = [requests EXCEPT ![r] = handleStream(@, mimetype)]
  /\ Awaited(r, requests[r], requests'[r])
  /\ UNCHANGED <<files, lastEnd, connVars, uploadVars, tsVars, sessionVars>>

HandleStream ==
  \E r \in 1..Len(requests), mimetype \in Mimetypes : HandleStreamOf(r, mimetype)

\* reader.onprogress: a blob of the listing was received and is acknowledged
onprogress(req) ==
  LET received == sendAck("Received", SUCCESS)
  IN [req EXCEPT !.acks = IF @[Len(@)] = received THEN @ ELSE Append(@, received)]

OnProgressOf(r) ==
  /\ requests[r].stream = "open"
  /\ requests' = [requests EXCEPT ![r] = onprogress(@)]
  /\ UNCHANGED <<files, lastEnd, calls, currentDirectory, instance, connVars,
                 uploadVars, tsVars, sessionVars>>

OnProgress == \E r \in 1..Len(requests) : OnProgressOf(r)

\* the end of a stream taken into account only for the refresh requested last
OnEndOfLatestRequested(r, mimetypes) ==
  LET file == requests[r].file
  IN /\ requests[r].stream = "open"
     /\ files' = IF r = Len(requests)
                   THEN [files EXCEPT ![file.streamName] =
                           Some(jsonReady(@, file, mimetypes))]
                   ELSE files
     /\ requests' = [requests EXCEPT ![r].stream = "ended",
                                     ![r].promise = resolve(@)]
     /\ lastEnd' = [request |-> r, json |-> mimetypes]
     /\ Awaited(r, requests[r], requests'[r])
     /\ UNCHANGED <<connVars, uploadVars, tsVars, sessionVars>>

\* reader.onend: the stream has ended and reader.getJSON() gives mimetypes
OnEndOf(r, mimetypes) ==
  LET file == requests[r].file
  IN /\ requests[r].stream = "open"
     /\ files' = [files EXCEPT ![file.streamName] =
                    Some(jsonReady(@, file, mimetypes))]
     /\ requests' = [requests EXCEPT ![r].stream = "ended",
                                     ![r].promise = resolve(@)]
     /\ lastEnd' = [request |-> r, json |-> mimetypes]
     /\ Awaited(r, requests[r], requests'[r])
     /\ UNCHANGED <<connVars, uploadVars, tsVars, sessionVars>>

OnEnd == \E r \in 1..Len(requests), mimetypes \in Listings : OnEndOf(r, mimetypes)

\* the refreshes of the entries of a filesystem
NextFilesystem ==
  \/ Refresh
  \/ HandleStream
  \/ OnProgress
  \/ OnEnd

SpecFilesystem == Init /\ [][NextFilesystem]_vars

\* changeDirectory(fs, file) up to its first await
ChangeDirectoryOf(file) ==
  /\ UserCalls < MaxRefreshes
  /\ requests' = Append(requests, refresh(file))
  /\ Called("changeDirectory", refresh(file))
  /\ UNCHANGED <<files, lastEnd, connVars, uploadVars, tsVars, sessionVars>>

ChangeDirectory == \E file \in Entries : ChangeDirectoryOf(file)

\* createInstance(tunnel, client, object, name) up to its first await: the
\* filesystem is constructed with its root and the root is refreshed
CreateInstance ==
  /\ instance = "none"
  /\ requests' = Append(requests, refresh(RootEntry))
  /\ Called("createInstance", refresh(RootEntry))
  /\ UNCHANGED <<files, lastEnd, connVars, uploadVars, tsVars, sessionVars>>

\* a filesystem made by createInstance and used once it is returned; the
\* blobs of a listing, which only add acknowledgements to its stream, are
\* left to SpecFilesystem
NextMirror ==
  \/ CreateInstance
  \/ instance = "returned" /\ Refresh
  \/ instance = "returned" /\ ChangeDirectory
  \/ HandleStream
  \/ OnEnd

SpecMirror == Init /\ [][NextMirror]_vars

(***************************************************************************)
(* RemoteDesktopService.handleFilesystem: the filesystems the client       *)
(* announces, each built by createInstance with a refresh of its root.     *)
(***************************************************************************)
\* the fields of the service handleFilesystem works on
Service ==
  [connection |-> Entering, filesystems |-> filesystems,
   subjectFilesystems |-> subjectFilesystems]

ReturningService(m) ==
  /\ Returning(m.connection)
  /\ filesystems' = m.filesystems
  /\ subjectFilesystems' = m.subjectFilesystems

\* handleFilesystem adding the filesystem however createInstance ends
handleFilesystemAlways(rev, m, fs, promise, report) ==
  IF promise = "pending" THEN m
  ELSE [m EXCEPT !.filesystems = Append(@, fs),
                 !.subjectFilesystems = Append(@, fs)]

\* handleFilesystem(object, name) once the promise of createInstance has
\* settled.  earlier: .then(fs => this.filesystems.push(fs)); later:
\* .then(fs => { push(fs); subjectFilesystems.next(fs) })
\* .catch(err => this.handleTunnelError(err.message))
handleFilesystem(rev, m, fs, promise, report) ==
  CASE promise = "resolved" ->
         IF rev = "later"
           THEN [m EXCEPT !.filesystems = Append(@, fs),
                          !.subjectFilesystems = Append(@, fs)]
           ELSE [m EXCEPT !.filesystems = Append(@, fs)]
    [] promise = "rejected" ->
         IF rev = "later"
           THEN [m EXCEPT !.connection = handleTunnelError(@, report)]
           ELSE m
    [] OTHER -> m

\* the promise of createInstance for a root refresh that went from before
\* to after: it settles when the refresh does
Settled(before, after) ==
  IF before.promise = "pending" THEN createInstancePromise(after.promise)
                                ELSE "pending"

\* client.onfilesystem(object, name): createInstance up to its await
HandleFilesystem ==
  /\ bound
  /\ Len(announced) < MaxFilesystems
  /\ announced' = Append(announced, [request |-> refresh(RootEntry),
                                      files |-> None])
  /\ UNCHANGED <<filesystems, subjectFilesystems, revision, connVars,
                 uploadVars, tsVars, fsVars, paramVars, clipVars,
                 moreVars>>

\* the listing stream of the root of the i-th filesystem arrives
FilesystemStreamOf(i, mimetype, report) ==
  /\ announced[i].request.stream = "requested"
  /\ announced' = [announced EXCEPT ![i].request = handleStream(@, mimetype)]
  /\ ReturningService(
       handleFilesystem(revision, Service, i,
         Settled(announced[i].request, announced'[i].request), report))
  /\ UNCHANGED <<bound, revision, uploadVars, tsVars, fsVars, paramVars,
                 clipVars, moreVars>>

FilesystemStream ==
  \E i \in DOMAIN announced, mimetype \in Mimetypes, report \in SyncReports :
    FilesystemStreamOf(i, mimetype, report)

\* a blob of the listing of the root of the i-th filesystem arrives
FilesystemProgressOf(i) ==
  /\ announced[i].request.stream = "open"
  /\ announced' = [announced EXCEPT ![i].request = onprogress(@)]
  /\ UNCHANGED <<filesystems, subjectFilesystems, revision, connVars,
                 uploadVars, tsVars, fsVars, paramVars, clipVars,
                 moreVars>>

FilesystemProgress == \E i \in DOMAIN announced : FilesystemProgressOf(i)

\* the listing of the root of the i-th filesystem ends
FilesystemEndOf(i, mimetypes, report) ==
  /\ announced[i].request.stream = "open"
  /\ announced' =
       [announced EXCEPT ![i].files = Some(jsonReady(@, RootEntry, mimetypes)),
                         ![i].request.stream = "ended",
                         ![i].request.promise = resolve(@)]
  /\ ReturningService(
       handleFilesystem(revision, Service, i,
         Settled(announced[i].request, announced'[i].request), report))
  /\ UNCHANGED <<bound, revision, uploadVars, tsVars, fsVars, paramVars,
                 clipVars, moreVars>>

FilesystemEnd ==
  \E i \in DOMAIN announced, mimetypes \in Listings, report \in SyncReports :
    FilesystemEndOf(i, mimetypes, report)

\* the service on a connection on which filesystems are announced
NextAnnounce ==
  \/ Connect
  \/ Disconnect
  \/ HandleTunnelStateChange
  \/ HandleFilesystem
  \/ FilesystemStream
  \/ FilesystemProgress
  \/ FilesystemEnd

SpecAnnounce == Init /\ [][NextAnnounce]_vars

\* either revision of the service
InitRevisions ==
  /\ revision \in {"earlier", "later"}
  /\ parameters = NoParameters
  /\ InitService
  /\ InitFilesystem
  /\ ts = NewTransferState(None, None)
  /\ tsCall = NoCall

SpecRevisions == InitRevisions /\ [][NextAnnounce]_vars

(***************************************************************************)
(* RemoteDesktopService.handleClipboard: the clipboard streams of the      *)
(* remote desktop.                                                         *)
(***************************************************************************)
\* the mimetypes of the clipboard streams and the text of their blobs
TextSlash == <<"t", "e", "x", "t", "/">>
ClipboardMimetypes ==
  {TextSlash \o <<"p">>, TextSlash, <<"t", "e", "x", "t">>,
   <<"x">> \o TextSlash \o <<"p">>, <<"T", "E", "X", "T", "/", "p">>}
Chunks == {<<"a">>, <<"b">>, <<"c">>}

\* /^text\//.exec(mimetype)
matchesText(mimetype) == substring(mimetype, 0, Len(TextSlash)) = TextSlash

\* handleClipboard reading every stream as text
handleClipboardAny(mimetype) ==
  [mimetype |-> mimetype, reader |-> TRUE, data |-> <<>>, blobs |-> <<>>,
   ended |-> FALSE]

\* handleClipboard(stream, mimetype): the stream with the StringReader it
\* gets if it is text and the data of the closure; blobs is what the stream
\* has delivered
handleClipboard(mimetype) ==
  [mimetype |-> mimetype, reader |-> matchesText(mimetype), data |-> <<>>,
   blobs |-> <<>>, ended |-> FALSE]

\* the clipboard fields a callback of the reader of one stream works on
Clipboard(i) ==
  [stream |-> clipboards[i], onRemoteClipboardData |-> onRemoteClipboardData]

ReturningClipboard(i, c) ==
  /\ clipboards' = [clipboards EXCEPT ![i] = c.stream]
  /\ onRemoteClipboardData' = c.onRemoteClipboardData

\* reader.ontext emitting what has been read so far
ontextEmitting(c, text) ==
  [c EXCEPT !.stream.data = @ \o text,
            !.onRemoteClipboardData = Append(@, c.stream.data \o text)]

\* reader.ontext = text => (data += text)
ontext(c, text) ==
  [c EXCEPT !.stream.data = @ \o text]

\* reader.onend = () => this.onRemoteClipboardData.next(data)
onend(c) ==
  [c EXCEPT !.onRemoteClipboardData = Append(@, c.stream.data)]

\* client.onclipboard(stream, mimetype)
HandleClipboardOf(mimetype) ==
  /\ bound
  /\ Len(clipboards) < MaxClipboards
  /\ clipboards' = Append(clipboards, handleClipboard(mimetype))
  /\ UNCHANGED <<onRemoteClipboardData, connVars, uploadVars, tsVars, fsVars,
                 mirrorVars, paramVars, moreVars>>

HandleClipboard ==
  \E mimetype \in ClipboardMimetypes : HandleClipboardOf(mimetype)

\* a blob of the i-th stream arrives: the reader, if there is one, decodes
\* it and calls ontext
ClipboardBlobOf(i, text) ==
  LET received == [Clipboard(i) EXCEPT !.stream.blobs = Append(@, text)]
  IN /\ ~clipboards[i].ended
     /\ Len(clipboards[i].blobs) < MaxChunks
     /\ ReturningClipboard(i, IF clipboards[i].reader
                                THEN ontext(received, text) ELSE received)
     /\ UNCHANGED <<connVars, uploadVars, tsVars, fsVars, mirrorVars, paramVars, moreVars>>

ClipboardBlob ==
  \E i \in DOMAIN clipboards, text \in Chunks : ClipboardBlobOf(i, text)

\* the i-th stream ends: the reader, if there is one, calls onend
ClipboardEndOf(i) ==
  LET finished == [Clipboard(i) EXCEPT !.stream.ended = TRUE]
  IN /\ ~clipboards[i].ended
     /\ ReturningClipboard(i, IF clipboards[i].reader
                                THEN onend(finished) ELSE finished)
     /\ UNCHANGED <<connVars, uploadVars, tsVars, fsVars, mirrorVars, paramVars, moreVars>>

ClipboardEnd == \E i \in DOMAIN clipboards : ClipboardEndOf(i)

NextClipboard ==
  \/ Connect
  \/ HandleClipboard
  \/ ClipboardBlob
  \/ ClipboardEnd

SpecClipboard == Init /\ [][NextClipboard]_vars

(***************************************************************************)
(* Properties of the uploads                                               *)
(***************************************************************************)
Phase(id) == transfers[id].transferState.streamState
Code(id) == transfers[id].transferState.statusCode
InCollection(id) == \E k \in 1..Len(uploads) : uploads[k] = id

\* C2: an uploadFile call whose destination entry is not of type DIRECTORY
\* throws, creates no stream (neither a client file stream nor an output
\* stream of the filesystem object) and leaves the uploads collection as it was.
C2_NonDirectoryFailsBeforeStream ==
  [][\A file \in Files, fs \in FsArgs, directory \in DirectoryArgs :
       (/\ directory # None
        /\ directory[1].type # FileType.DIRECTORY
        /\ UploadFileOf(file, fs, directory))
         => /\ lastUpload'.error # ""
            /\ lastUpload'.object = None /\ lastUpload'.streamName = None
            /\ streams' = streams
            /\ transfers' = transfers
            /\ uploads' = uploads]_vars

\* an upload was registered, and a later call with a NORMAL entry threw
C2_Witness ==
  /\ lastUpload.error = "upload destination is not a directory"
  /\ Len(streams) = 1
  /\ uploads = <<1>>

\* C3: after an acknowledgement that reported an error (the handler called
\* sendEnd), the transfer is in ERROR and no upload request is ever started
\* for its stream.
C3_ErrorAckNeverUploads ==
  \A id \in Ids :
    streams[id].ended => (Phase(id) = StreamState.ERROR /\ streams[id].xhr = "none")

\* C4: once the acknowledgement handler of a stream has run, whatever the
\* status it was given, it is detached.
C4_HandlerDetachedAfterFirstAck ==
  \A id \in Ids : streams[id].acked => ~streams[id].onack

\* C5 as stated: a transfer is IDLE until the acknowledgement of its stream
\* arrives.
C5_IdleUntilAck ==
  \A id \in Ids : ~streams[id].acked => Phase(id) = StreamState.IDLE

\* C5: a transfer is OPEN, with status SUCCESS, from its creation until the
\* first acknowledgement of its stream arrives, and is never IDLE once created.
C5_OpenFromCreation ==
  \A id \in Ids :
    /\ Phase(id) # StreamState.IDLE
    /\ ~streams[id].acked =>
         (Phase(id) = StreamState.OPEN /\ Code(id) = SUCCESS)

\* a second upload waits for its acknowledgement while the first has failed
C5_Witness ==
  /\ Len(transfers) = 2
  /\ ~streams[2].acked /\ streams[2].onack
  /\ Phase(2) = StreamState.OPEN
  /\ Phase(1) = StreamState.ERROR

\* C6: when uploadFile returns an upload, that upload is the last element of
\* the uploads collection and the handler of its stream has not run yet.
C6_RegisteredOnReturn ==
  [][\A file \in Files, fs \in FsArgs, directory \in DirectoryArgs :
       (uploadFileError(directory) = "" /\ UploadFileOf(file, fs, directory))
         => /\ Len(transfers') = Len(transfers) + 1
            /\ uploads' = Append(uploads, Len(transfers'))
            /\ ~streams'[Len(transfers')].acked
            /\ streams'[Len(transfers')].xhr = "none"]_vars

\* the second upload has just been returned, behind the first, still unacknowledged
C6_Witness ==
  /\ lastUpload.error = ""
  /\ uploads = <<1, 2>>
  /\ streams[1].acked
  /\ ~streams[2].acked

\* C7: when the upload request of an acknowledged stream completes, success
\* gives CLOSED, a STREAM_ERROR failure gives ERROR with the status code of
\* the failure, any other failure gives ERROR with INTERNAL_ERROR.
C7_OutcomeDecidesState ==
  [][\A id \in Ids, http \in HttpResponses :
       UploadDoneOf(id, http) =>
         LET result == uploadToStream(http)
             after == transfers'[id].transferState
         IN IF result.ok
              THEN after.streamState = StreamState.CLOSED
            ELSE IF result.error.type = "STREAM_ERROR"
              THEN /\ after.streamState = StreamState.ERROR
                   /\ result.error.statusCode # None =>
                        after.statusCode = result.error.statusCode[1]
            ELSE /\ after.streamState = StreamState.ERROR
                 /\ after.statusCode = INTERNAL_ERROR]_vars

\* C8: clearCompletedUploads keeps exactly the uploads whose phase is IDLE or
\* OPEN, in their order, and the in-progress predicate is true for exactly
\* these two phases.
C8_ClearKeepsInProgress ==
  [][ClearCompletedUploads =>
       /\ uploads' = SelectSeq(uploads,
            LAMBDA id : Phase(id) \in {StreamState.IDLE, StreamState.OPEN})
       /\ \A p \in StreamStates, c \in StatusCodes :
            isTransferInProgress([streamState |-> p, statusCode |-> c])
              <=> p \in {StreamState.IDLE, StreamState.OPEN}]_vars

\* the first upload failed and was cleared, the second is open and was kept
C8_Witness ==
  /\ Len(transfers) = 2
  /\ Phase(1) = StreamState.ERROR /\ ~InCollection(1)
  /\ Phase(2) = StreamState.OPEN /\ uploads = <<2>>

\* C9: a clearCompletedUploads call that follows another with no event in
\* between changes nothing: clearing the cleared collection gives it back.
C9_ClearIsIdempotent ==
  [][ClearCompletedUploads =>
       clearCompletedUploads(uploads', transfers') = uploads']_vars

\* of an OPEN and a CLOSED upload, the clear has left the OPEN one only
C9_Witness ==
  /\ Len(transfers) = 2
  /\ Phase(1) = StreamState.OPEN /\ uploads = <<1>>
  /\ Phase(2) = StreamState.CLOSED /\ ~InCollection(2)

\* C10: a step that is not a clearCompletedUploads call removes no upload
\* from the collection and does not reorder it: the collection stays as it
\* was, or has one upload appended by uploadFile.
C10_OnlyClearRemoves ==
  [][~ClearCompletedUploads =>
       \/ uploads' = uploads
       \/ /\ UploadFile
          /\ Len(uploads') = Len(uploads) + 1
          /\ SubSeq(uploads', 1, Len(uploads)) = uploads]_vars

\* a closed and a failed upload are still in the collection after the
\* connection has been lost with a tunnel error
C10_Witness ==
  /\ onStateChange = ServiceSTATE.TUNNEL_ERROR
  /\ clientOp = "disconnect"
  /\ uploads = <<1, 2>>
  /\ Phase(1) = StreamState.CLOSED
  /\ Phase(2) = StreamState.ERROR

(***************************************************************************)
(* Properties of the connection state                                      *)
(***************************************************************************)
ErrorStates == {ServiceSTATE.CLIENT_ERROR, ServiceSTATE.TUNNEL_ERROR}

\* C11: the state after a client or tunnel state report is decided by the
\* reported code alone, whatever the state before: client 0 gives IDLE,
\* client 2 WAITING, client 3 CONNECTED, tunnel 1 CONNECTING, tunnel 2
\* DISCONNECTED.
C11_ReportDecidesState ==
  [][/\ \A state \in {0, 2, 3} :
          HandleClientStateChangeOf(state) =>
            getState' = (CASE state = 0 -> ServiceSTATE.IDLE
                           [] state = 2 -> ServiceSTATE.WAITING
                           [] state = 3 -> ServiceSTATE.CONNECTED)
     /\ \A state \in {1, 2} :
          HandleTunnelStateChangeOf(state) =>
            getState' = (CASE state = 1 -> ServiceSTATE.CONNECTING
                           [] state = 2 -> ServiceSTATE.DISCONNECTED)]_vars

\* after a connect and a disconnect, a report has set CONNECTING by itself
C11_Witness ==
  /\ bound
  /\ clientOp = "disconnect"
  /\ effects = <<ServiceSTATE.CONNECTING>>
  /\ getState = ServiceSTATE.CONNECTING

\* C12: the client (tunnel) error handler delegates disconnect to the client
\* before it sets the state, and leaves the state CLIENT_ERROR (TUNNEL_ERROR),
\* also when the tunnel reports state 2 while the disconnect runs.
C12_DisconnectThenErrorState ==
  [][\A report \in SyncReports :
       /\ HandleClientErrorOf(report) =>
            /\ effects'[1] = "client.disconnect"
            /\ effects'[Len(effects')] = ServiceSTATE.CLIENT_ERROR
            /\ getState' = ServiceSTATE.CLIENT_ERROR
       /\ HandleTunnelErrorOf(report) =>
            /\ effects'[1] = "client.disconnect"
            /\ effects'[Len(effects')] = ServiceSTATE.TUNNEL_ERROR
            /\ getState' = ServiceSTATE.TUNNEL_ERROR]_vars

\* the client error handler has returned after the disconnect it forced
\* made the tunnel report state 2
C12_Witness ==
  /\ effects = <<"client.disconnect", ServiceSTATE.DISCONNECTED,
                 ServiceSTATE.CLIENT_ERROR>>
  /\ getState = ServiceSTATE.CLIENT_ERROR

\* C13: once the state is CLIENT_ERROR or TUNNEL_ERROR, no client or tunnel
\* state report changes it.
C13_ErrorStateIsTerminal ==
  [][(getState \in ErrorStates) =>
       /\ \A state \in 0..5 :
            HandleClientStateChangeOf(state) => getState' = getState
       /\ \A state \in 0..3 :
            HandleTunnelStateChangeOf(state) => getState' = getState]_vars

\* C14: getState() is the state broadcast last, IDLE before any broadcast;
\* the state changes only by being broadcast; an observer holds that state
\* from the moment it subscribes.
C14_LastBroadcastRetrievable ==
  /\ getState = ServiceSTATE.IDLE
  /\ [][/\ Broadcasts(effects') # <<>> =>
             getState' = Broadcasts(effects')[Len(Broadcasts(effects'))]
        /\ Broadcasts(effects') = <<>> => getState' = getState
        /\ subscriber'.subscribed => subscriber'.received = Some(getState')]_vars

\* an observer has received the two states the tunnel error handler set
C14_Witness ==
  /\ effects = <<"client.disconnect", ServiceSTATE.DISCONNECTED,
                 ServiceSTATE.TUNNEL_ERROR>>
  /\ subscriber = [subscribed |-> TRUE,
                   received |-> Some(ServiceSTATE.TUNNEL_ERROR)]
  /\ getState = ServiceSTATE.TUNNEL_ERROR

\* C15: the client reports 1, 4 and 5 and the tunnel reports other than 1 and
\* 2 leave the state as it was and broadcast nothing.
C15_IgnoredReports ==
  [][/\ \A state \in {1, 4, 5} :
          HandleClientStateChangeOf(state) =>
            /\ getState' = getState
            /\ effects' = <<>>
            /\ subscriber' = subscriber
     /\ \A state \in {0, 3} :
          HandleTunnelStateChangeOf(state) =>
            /\ getState' = getState
            /\ effects' = <<>>
            /\ subscriber' = subscriber]_vars

\* a report was ignored while the connection was established and observed
C15_Witness ==
  /\ bound
  /\ effects = <<>>
  /\ getState = ServiceSTATE.CONNECTED
  /\ subscriber = [subscribed |-> TRUE,
                   received |-> Some(ServiceSTATE.CONNECTED)]

(***************************************************************************)
(* Properties of the filesystem entries                                    *)
(***************************************************************************)
Requests == 1..Len(requests)
IsPrefix(p, str) == Len(p) <= Len(str) /\ SubSeq(str, 1, Len(p)) = p
WithSlash(str) ==
  IF str # <<>> /\ str[Len(str)] = "/" THEN str ELSE str \o <<"/">>
\* the stream names of a listing that lie under the entry named streamName
Matched(streamName, mimetypes) ==
  {name \in DOMAIN mimetypes : IsPrefix(WithSlash(streamName), name)}
ChildNames(children) == {children[k].streamName : k \in DOMAIN children}

\* C16: when the listing stream of a refresh ends, the children of the
\* refreshed entry are exactly the entries of that listing that carry the
\* prefix, nothing of what was known before is kept, and no other entry
\* changes; no other step changes any children.
C16_ChildrenReplacedWholesale ==
  [][/\ \A r \in Requests, mimetypes \in Listings :
          OnEndOf(r, mimetypes) =>
            LET streamName == requests[r].file.streamName
            IN /\ files'[streamName] # None
               /\ ChildNames(files'[streamName][1]) = Matched(streamName, mimetypes)
               /\ Cardinality(DOMAIN files'[streamName][1])
                    = Cardinality(Matched(streamName, mimetypes))
               /\ \A e \in DOMAIN files : e # streamName => files'[e] = files[e]
     /\ ~OnEnd => files' = files]_vars

\* the root was refreshed twice: the second listing has replaced the first
C16_Witness ==
  /\ Len(requests) = 2
  /\ \A r \in Requests :
       requests[r].file = RootEntry /\ requests[r].stream = "ended"
  /\ lastEnd = [request |-> 2, json |-> ListingRoot]
  /\ files[ROOT_STREAM] # None
  /\ ChildNames(files[ROOT_STREAM][1]) = DOMAIN ListingRoot

\* C17: a refresh of an entry whose mimetype is not STREAM_INDEX_MIMETYPE
\* fails and requests no input stream: nothing is received or acknowledged.
C17_WrongEntryRequestsNothing ==
  \A r \in Requests :
    requests[r].file.mimetype # STREAM_INDEX_MIMETYPE =>
      /\ requests[r].promise = "rejected"
      /\ requests[r].stream = "none"
      /\ requests[r].acks = <<>>

\* C18: a stream that was refused with UNSUPPORTED for its mimetype gets no
\* other acknowledgement, and its refresh has failed.
C18_WrongStreamOnlyUnsupported ==
  \A r \in Requests :
    (requests[r].acks # <<>> /\ requests[r].acks[1].code = UNSUPPORTED) =>
      /\ \A k \in 1..Len(requests[r].acks) : requests[r].acks[k].code = UNSUPPORTED
      /\ requests[r].promise = "rejected"

\* C19: when a listing is received for an entry, each path with the prefix
\* gives one child keyed by the path without the prefix, whose stream name
\* is the path, whose type is DIRECTORY iff its mimetype is
\* STREAM_INDEX_MIMETYPE, and whose parent is the entry; a path without the
\* prefix gives no child.
C19_ChildOfEachPath ==
  [][\A r \in Requests, mimetypes \in Listings :
       OnEndOf(r, mimetypes) =>
         LET streamName == requests[r].file.streamName
             prefix == WithSlash(streamName)
             children == files'[streamName][1]
         IN \A name \in DOMAIN mimetypes :
              IF IsPrefix(prefix, name)
                THEN LET key == SubSeq(name, Len(prefix) + 1, Len(name))
                     IN /\ key \in DOMAIN children
                        /\ children[key].streamName = name
                        /\ children[key].name = key
                        /\ children[key].mimetype = mimetypes[name]
                        /\ children[key].type = FileType.DIRECTORY
                             <=> mimetypes[name] = STREAM_INDEX_MIMETYPE
                        /\ children[key].type \in {FileType.DIRECTORY, FileType.NORMAL}
                        /\ children[key].parent = streamName
                        /\ \A k \in DOMAIN children :
                             children[k].streamName = name => k = key
                ELSE \A k \in DOMAIN children : children[k].streamName # name]_vars

\* the directory "/d" has received a listing with a file under it, a path
\* next to it and a relative path: it has the one child "a"
C19_Witness ==
  /\ lastEnd.request # 0
  /\ lastEnd.json = ListingSub
  /\ requests[lastEnd.request].file = SubEntry
  /\ files[SubEntry.streamName] # None
  /\ DOMAIN files[SubEntry.streamName][1] = {<<"a">>}
  /\ files[SubEntry.streamName][1][<<"a">>].type = FileType.NORMAL

\* C20: when two refreshes of the same entry have both ended, the children
\* of the entry are those of the listing of the stream that ended last,
\* whichever of the two was requested first.
C20_LastCompletedWins ==
  \A r1 \in Requests, r2 \in Requests :
    (/\ r1 # r2
     /\ requests[r1].file = requests[r2].file
     /\ requests[r1].stream = "ended" /\ requests[r2].stream = "ended"
     /\ lastEnd.request = r1)
      => LET streamName == requests[r1].file.streamName
         IN /\ files[streamName] # None
            /\ ChildNames(files[streamName][1]) = Matched(streamName, lastEnd.json)

\* of two refreshes of the root, the one requested first has ended last and
\* its listing is the one shown
C20_Witness ==
  /\ Len(requests) = 2
  /\ requests[1].file = RootEntry /\ requests[2].file = RootEntry
  /\ requests[1].stream = "ended" /\ requests[2].stream = "ended"
  /\ lastEnd = [request |-> 1, json |-> ListingRoot]
  /\ files[ROOT_STREAM] # None
  /\ DOMAIN files[ROOT_STREAM][1] = {<<"a">>, <<"d">>}

(***************************************************************************)
(* The filesystem as a tree: the entries reachable from fs.root through    *)
(* the files of each entry.                                                *)
(***************************************************************************)
\* fs.root as an entry of the tree: the File constructor leaves its parent
\* and name undefined
RootNode ==
  [mimetype |-> RootEntry.mimetype, streamName |-> RootEntry.streamName,
   type |-> RootEntry.type, parent |-> None, name |-> None]

\* file.files is defined: only the entries refresh is called on get one
HasFiles(streamName) ==
  streamName \in DOMAIN files /\ files[streamName] # None

\* file.files as a set of entries, empty while undefined
Children(streamName) ==
  IF HasFiles(streamName)
    THEN {files[streamName][1][k] : k \in DOMAIN files[streamName][1]}
    ELSE {}

RECURSIVE ReachableFrom(_)
ReachableFrom(entries) ==
  LET next == entries \cup UNION {Children(e.streamName) : e \in entries}
  IN IF next = entries THEN entries ELSE ReachableFrom(next)

Reachable == ReachableFrom({RootNode})

\* C21: the current directory changes only in the step in which the listing
\* of a changeDirectory call ends with its refresh still pending, and it
\* becomes the entry of that call; when the refresh of a changeDirectory
\* call is rejected the promise of the call is rejected and the current
\* directory stays what it was.
C21_CurrentDirectoryAfterRefresh ==
  [][/\ (currentDirectory' # currentDirectory) =>
          \E r \in Requests :
            /\ calls[r].method = "changeDirectory"
            /\ requests[r].promise = "pending"
            /\ requests'[r].promise = "resolved"
            /\ requests'[r].stream = "ended"
            /\ currentDirectory' = Some(requests[r].file.streamName)
     /\ \A r \in 1..Len(requests') :
          (/\ calls'[r].method = "changeDirectory"
           /\ requests'[r].promise = "rejected"
           /\ (r \in Requests => requests[r].promise = "pending"))
            => /\ calls'[r].promise = "rejected"
               /\ currentDirectory' = currentDirectory]_vars

\* a changeDirectory to "/d" has succeeded and one to "/a" has failed since
C21_Witness ==
  /\ Len(requests) = 3
  /\ calls[2].method = "changeDirectory" /\ calls[3].method = "changeDirectory"
  /\ requests[2].file = SubEntry /\ calls[2].promise = "resolved"
  /\ requests[3].file = PlainEntry /\ calls[3].promise = "rejected"
  /\ requests[3].stream = "ended"
  /\ currentDirectory = Some(SubEntry.streamName)

\* C22: once createInstance has returned the filesystem, its current
\* directory is an entry of type DIRECTORY that is reachable from the root.
C22_CurrentDirectoryReachable ==
  instance = "returned" =>
    /\ currentDirectory # None
    /\ \E e \in Reachable :
         /\ e.streamName = currentDirectory[1]
         /\ e.type = FileType.DIRECTORY

\* C23: the root has no parent and is a DIRECTORY, and an entry of type
\* NORMAL never has files.
C23_NormalHasNoChildren ==
  /\ RootNode.parent = None
  /\ RootNode.type = FileType.DIRECTORY
  /\ \A e \in Reachable \cup Entries :
       e.type = FileType.NORMAL => ~HasFiles(e.streamName)

\* C24: two entries reachable from the root that have the same stream name
\* are the same entry.
C24_StreamNamesUnique ==
  \A e1 \in Reachable, e2 \in Reachable :
    e1.streamName = e2.streamName => e1 = e2

\* how often x occurs in a sequence
Occurrences(seq, x) == Cardinality({k \in DOMAIN seq : seq[k] = x})

\* C25: an announced filesystem is in the collection exactly when its
\* createInstance has succeeded, then once, and it was emitted to the
\* subscribers as often; the root of a filesystem in the collection has been
\* listed to the end.
C25_PublishedOnceAfterRootListing ==
  \A i \in DOMAIN announced :
    /\ Occurrences(filesystems, i) <= 1
    /\ Occurrences(subjectFilesystems, i) = Occurrences(filesystems, i)
    /\ (Occurrences(filesystems, i) = 1)
         <=> (createInstancePromise(announced[i].request.promise) = "resolved")
    /\ (Occurrences(filesystems, i) = 1)
         => /\ announced[i].request.stream = "ended"
            /\ announced[i].files # None

\* two filesystems were announced and the second was listed first
C25_Witness ==
  /\ filesystems = <<2, 1>>
  /\ subjectFilesystems = <<2, 1>>
  /\ announced[1].files # None /\ announced[2].files # None

\* C26: in the step in which the root refresh of an announced filesystem is
\* rejected, the filesystem is neither added nor emitted, the client is
\* disconnected and the state becomes TUNNEL_ERROR.
C26_FailedConstructionIsTunnelError ==
  [][\A i \in DOMAIN announced :
       (/\ announced[i].request.promise = "pending"
        /\ announced'[i].request.promise = "rejected")
         => /\ filesystems' = filesystems
            /\ subjectFilesystems' = subjectFilesystems
            /\ clientOp' = "disconnect"
            /\ onStateChange' = ServiceSTATE.TUNNEL_ERROR]_vars

\* C27: a connect() made when the connection has ended leaves no filesystem
\* of that connection in the collection.
C27_NoMirrorOfEndedConnection ==
  [][(/\ Connect
      /\ getState \in {ServiceSTATE.DISCONNECTED, ServiceSTATE.CLIENT_ERROR,
                       ServiceSTATE.TUNNEL_ERROR})
       => filesystems' = <<>>]_vars

\* the properties of the parameters that are protocol blocks
ProtocolBlocks(params) ==
  {i \in DOMAIN params :
     /\ params[i].key \in {connection_types[t] : t \in DOMAIN connection_types}
     /\ params[i].value.kind = "object"}
Pairs(serialised) == {serialised[i] : i \in DOMAIN serialised}

\* C28: when connect is called with parameters that have one protocol
\* block, every key of the block is a key of what client.connect is given,
\* with the value it has in the block, and so is every top-level key of the
\* parameters, with its own value unless the block has that key too.
C28_BlockMergedToTopLevel ==
  (configuration # None /\ Cardinality(ProtocolBlocks(parameters)) = 1) =>
    LET block ==
          parameters[CHOOSE i \in ProtocolBlocks(parameters) : TRUE].value.properties
        sent == Pairs(configuration[1])
    IN /\ \A i \in DOMAIN block :
            <<block[i].key, primitiveToString(block[i].value)>> \in sent
       /\ \A i \in DOMAIN parameters :
            /\ \E pair \in sent : pair[1] = parameters[i].key
            /\ ~HasKey(block, parameters[i].key) =>
                 <<parameters[i].key, primitiveToString(parameters[i].value)>>
                   \in sent
       /\ \A pair \in sent : HasKey(block, pair[1]) \/ HasKey(parameters, pair[1])

\* connect({token: "T", vnc: {hostname: "h"}}) has sent token=T and
\* hostname=h
C28_Witness ==
  /\ parameters = <<Prop("token", Str("T")),
                    Prop("vnc", Obj(<<Prop("hostname", Str("h"))>>))>>
  /\ configuration # None
  /\ {<<"token", "T">>, <<"hostname", "h">>} \subseteq Pairs(configuration[1])

\* the blobs of a stream joined in the order of their arrival
RECURSIVE Joined(_)
Joined(blobs) == IF blobs = <<>> THEN <<>> ELSE Head(blobs) \o Joined(Tail(blobs))

TextStreams == {i \in DOMAIN clipboards : IsPrefix(TextSlash, clipboards[i].mimetype)}

\* C29: no step of a clipboard stream whose mimetype does not begin with
\* "text/" (its arrival, a blob, its end) emits anything on
\* onRemoteClipboardData.
C29_NonTextNeverPublished ==
  [][/\ \A mimetype \in ClipboardMimetypes :
          (HandleClipboardOf(mimetype) /\ ~IsPrefix(TextSlash, mimetype))
            => onRemoteClipboardData' = onRemoteClipboardData
     /\ \A i \in DOMAIN clipboards \ TextStreams :
          ((\E text \in Chunks : ClipboardBlobOf(i, text)) \/ ClipboardEndOf(i))
            => onRemoteClipboardData' = onRemoteClipboardData]_vars

\* a stream of mimetype "xtext/p" has delivered two blobs and ended, and
\* nothing was emitted
C29_Witness ==
  /\ Len(clipboards) >= 1
  /\ clipboards[1].mimetype = <<"x">> \o TextSlash \o <<"p">>
  /\ Len(clipboards[1].blobs) = 2
  /\ clipboards[1].ended
  /\ onRemoteClipboardData = <<>>

\* C30: a blob of a text stream emits nothing; the end of a text stream
\* emits one value, its blobs joined in the order of arrival; so there are
\* as many emissions as text streams that have ended.
C30_OneValueAtEnd ==
  [][/\ \A i \in TextStreams :
          /\ (\E text \in Chunks : ClipboardBlobOf(i, text))
               => onRemoteClipboardData' = onRemoteClipboardData
          /\ ClipboardEndOf(i)
               => onRemoteClipboardData' =
                    Append(onRemoteClipboardData, Joined(clipboards[i].blobs))
     /\ Len(onRemoteClipboardData) =
          Cardinality({i \in TextStreams : clipboards[i].ended})]_vars

\* a text stream delivered "b" then "a" and ended: "ba" is the one emission
C30_Witness ==
  /\ Len(clipboards) >= 1
  /\ clipboards[1].mimetype = TextSlash \o <<"p">>
  /\ clipboards[1].blobs = <<<<"b">>, <<"a">>>>
  /\ clipboards[1].ended
  /\ onRemoteClipboardData = <<<<"b", "a">>>>

\* C31: uploadFile called with a filesystem and no directory throws nothing,
\* creates the stream named by the current directory of the filesystem and
\* the name of the file, and adds the new transfer to the uploads.
C31_DefaultsToCurrentDirectory ==
  [][\A file \in Files, fs \in FsArgs :
       (fs # None /\ UploadFileOf(file, fs, None))
         => /\ lastUpload'.error = ""
            /\ lastUpload'.object = Some(fs[1].object)
            /\ lastUpload'.streamName =
                 Some(Append(fs[1].currentDirectory.streamName, file.name))
            /\ Len(transfers') = Len(transfers) + 1
            /\ uploads' = Append(uploads, Len(transfers'))]_vars

\* C32: after a setStreamState call without a status code on a state that
\* was not ERROR, the phase is the one given and the status code is the one
\* stored before the call.
C32_NoCodeKeepsCode ==
  (/\ tsCall.made
   /\ tsCall.before.streamState # StreamState.ERROR
   /\ tsCall.statusCode = None)
    => /\ ts.streamState = tsCall.streamState
       /\ ts.statusCode = tsCall.before.statusCode

\* a state that was OPEN with code UNSUPPORTED was set to CLOSED without a
\* code
C32_Witness ==
  /\ tsCall.made
  /\ tsCall.before = [streamState |-> StreamState.OPEN, statusCode |-> UNSUPPORTED]
  /\ tsCall.streamState = StreamState.CLOSED
  /\ tsCall.statusCode = None
  /\ ts = [streamState |-> StreamState.CLOSED, statusCode |-> UNSUPPORTED]

\* C33: after a setStreamState call with a status code on a state that was
\* not ERROR, the stored status code is the one given, whichever code of
\* the enumeration it is.
C33_GivenCodeStored ==
  (/\ tsCall.made
   /\ tsCall.before.streamState # StreamState.ERROR
   /\ tsCall.statusCode # None)
    => ts.statusCode = tsCall.statusCode[1]

\* C34: an instruction that arrives after connect() was called, once or
\* more often, is handled by the client once and emitted on
\* onTunnelInstruction once.
C34_InstructionPublishedOnce ==
  (tunnelInstruction # NoInstruction /\ tunnelInstruction.wrappers >= 1)
    => /\ tunnelInstruction.handled = 1
       /\ tunnelInstruction.emitted = 1

\* C35: the iframe of a download is removed from the document at most
\* once, it is removed as soon as its load event has fired, and once the
\* stream of the download has ended it is eventually removed.
C35_ScaffoldRemovedOnce ==
  /\ [](\A i \in DOMAIN downloads :
          /\ downloads[i].removals <= 1
          /\ (downloads[i].removals = 1) <=> ~downloads[i].attached
          /\ downloads[i].loaded => downloads[i].removals = 1)
  /\ \A i \in 1..MaxDownloads :
       (i \in DOMAIN downloads /\ downloads[i].ended)
         ~> (i \in DOMAIN downloads /\ downloads[i].removals = 1)

\* the timer removed the iframe of a stream that had ended, and a load
\* event that came afterwards removed nothing
C35_Witness ==
  /\ Len(downloads) >= 1
  /\ downloads[1].ended
  /\ downloads[1].timer = "fired"
  /\ downloads[1].loaded
  /\ downloads[1].threw
  /\ downloads[1].removals = 1

\* C36: a tick of the completion poll that finds the transfer CLOSED or
\* ERROR stops the poll and has the current directory refreshed, once.
C36_PollStopsAtTerminalPhase ==
  \A id \in DOMAIN polls :
    polls[id].seen \in {StreamState.CLOSED, StreamState.ERROR}
      => /\ ~polls[id].running
         /\ polls[id].refreshes = 1

\* C37: a refresh that has failed leaves the children of its entry as they
\* were, also when the stream of the failed refresh ends with a listing.
C37_FailedRefreshKeepsChildren ==
  [][\A r \in Requests, mimetypes \in Listings :
       (requests[r].promise = "rejected" /\ OnEndOf(r, mimetypes))
         => files' = files]_vars

\* C38: whatever acknowledgements, progress reports and upload outcomes
\* arrive, a transfer that is CLOSED keeps that phase, and a phase changes
\* only from IDLE to OPEN or from OPEN to CLOSED or ERROR.
C38_PhaseOnlyMovesForward ==
  [][\A id \in DOMAIN transfers :
       LET before == transfers[id].transferState.streamState
           after == transfers'[id].transferState.streamState
       IN /\ before = StreamState.CLOSED => after = StreamState.CLOSED
          /\ before # after =>
               \/ before = StreamState.IDLE /\ after = StreamState.OPEN
               \/ /\ before = StreamState.OPEN
                  /\ after \in {StreamState.CLOSED, StreamState.ERROR}]_vars

\* a transfer was closed by its completed upload and is no longer listed,
\* another one went from OPEN to ERROR when its upload request failed
C38_Witness ==
  /\ Len(transfers) = 2
  /\ transfers[1].transferState.streamState = StreamState.CLOSED
  /\ streams[1].xhr = "done"
  /\ uploads = <<2>>
  /\ transfers[2].transferState.streamState = StreamState.ERROR
  /\ streams[2].xhr = "done"
  /\ ~streams[2].ended

\* C39: a CLOSED transfer has transferred its whole length, and the
\* transferred-bytes count of a transfer in ERROR is left unmodified by the
\* progress and completion callbacks that come later.
C39_ClosedIsCompleteErrorIsFrozen ==
  [][\A id \in DOMAIN transfers :
       /\ transfers'[id].transferState.streamState = StreamState.CLOSED
            => transfers'[id].progress = transfers'[id].length
       /\ transfers[id].transferState.streamState = StreamState.ERROR
            => transfers'[id].progress = transfers[id].progress]_vars

\* the place of a protocol in connection_types
TypeOrder(type) == CHOOSE t \in DOMAIN connection_types : connection_types[t] = type

\* C40: when connect is called with parameters that have more than one
\* protocol block, what client.connect is given has every key of the block
\* whose protocol is last in connection_types, with the block's value also
\* when the parameters have that key at the top level, and every other key
\* it has is a top-level key of the parameters with its top-level value, so
\* that no key of another block is promoted.
C40_LastBlockInOrderMerged ==
  (configuration # None /\ Cardinality(ProtocolBlocks(parameters)) > 1) =>
    LET last == CHOOSE i \in ProtocolBlocks(parameters) :
                  \A j \in ProtocolBlocks(parameters) :
                    TypeOrder(parameters[j].key) <= TypeOrder(parameters[i].key)
        block == parameters[last].value.properties
        sent == Pairs(configuration[1])
    IN /\ \A i \in DOMAIN block :
            <<block[i].key, primitiveToString(block[i].value)>> \in sent
       /\ \A pair \in sent :
            IF HasKey(block, pair[1])
              THEN pair[2] = primitiveToString(Get(block, pair[1]))
              ELSE /\ HasKey(parameters, pair[1])
                   /\ pair[2] = primitiveToString(Get(parameters, pair[1]))

\* connect({token: "T", vnc: {token: "B"}, rdp: {hostname: "r"}}) has sent
\* token=B of the vnc block and no hostname of the rdp block
C40_Witness ==
  /\ parameters = <<Prop("token", Str("T")),
                    Prop("vnc", Obj(<<Prop("token", Str("B"))>>)),
                    Prop("rdp", Obj(<<Prop("hostname", Str("r"))>>))>>
  /\ configuration # None
  /\ <<"token", "B">> \in Pairs(configuration[1])
  /\ \A pair \in Pairs(configuration[1]) : pair[1] # "hostname" /\ pair # <<"token", "T">>

====
